---- MODULE Spec2Model ----
(***************************************************************************)
(* Model of ts-fix (src/src/cli.ts): codefixProject, checkOptions,         *)
(* genCodeFixesFromProject, doTextChanges, writeToFile and the             *)
(* overlay-aware readFile of createProject.                                *)
(*                                                                         *)
(* Texts are sequences of one-character strings.  Paths are sequences of   *)
(* path segments; an absolute path is the sequence of its segments from    *)
(* the root, a relative path the sequence of its segments.                 *)
(***************************************************************************)
EXTENDS Integers, Sequences, FiniteSets

VARIABLES
    \* ---- one run of codefixProject ----
    opt,              \* Options: file, write, outputFolder (tsconfig, cwd fixed)
    fsFiles,          \* the real file system: path -> content
    fsDirs,           \* the real file system: existing directories
    pc,               \* position in codefixProject / the generator
    validFiles,       \* checkOptions: validFiles
    invalidFiles,     \* checkOptions: invalidFiles
    project,          \* outcome of createProject: "none", "ok", "undefined", "threw"
    allChangedFiles,  \* the overlay Map<string, ChangedFile>, in insertion order
    idx,              \* index of the generator's for..of over getSourceFiles()
    requested,        \* calls of getCombinedCodeFix so far: [fileName, changes]
    yielded,          \* values yielded by genCodeFixesFromProject so far
    hostWrites,       \* calls of host.writeFile: [fileName, content]
    hostMkdirs,       \* calls of host.mkdir: directory paths
    hostLog,          \* calls of host.log
    lastRead,         \* <<>> or <<[path, value]>>: the latest readFile call
    result,           \* [kind, value]: what codefixProject returned or threw
    \* ---- one call of doTextChanges on its own ----
    pText, pEdits, pResult, pPhase

runVars == <<opt, fsFiles, fsDirs, pc, validFiles, invalidFiles, project,
             allChangedFiles, idx, requested, yielded, hostWrites, hostMkdirs,
             hostLog, lastRead, result>>
patchVars == <<pText, pEdits, pResult, pPhase>>
vars == <<runVars, patchVars>>

----------------------------------------------------------------------------
(* Bounds *)

MaxTextLen == 4      \* longest generic input text of the patch applier
MaxSpanLen == 2      \* longest span of a generic edit
MaxEdits == 2        \* longest generic edit list
MaxRequested == 2    \* longest opt.file list
MaxCandidates == 2   \* most candidate changes the fix provider returns

----------------------------------------------------------------------------
(* Sequence helpers *)

Min(a, b) == IF a < b THEN a ELSE b
Max(a, b) == IF a > b THEN a ELSE b

Range(s) == {s[i] : i \in 1..Len(s)}

SeqsUpTo(S, n) == UNION {[1..k -> S] : k \in 0..n}

Front(s) == SubSeq(s, 1, Len(s) - 1)
Last(s) == s[Len(s)]

----------------------------------------------------------------------------
(* Strings: String.prototype.substring *)

Clamp(n, len) == Max(0, Min(n, len))

\* s.substring(a, b): both indexes are clamped to [0, length] and swapped
\* when a > b
Substring(s, a, b) ==
    LET ca == Clamp(a, Len(s))
        cb == Clamp(b, Len(s))
    IN SubSeq(s, Min(ca, cb) + 1, Max(ca, cb))

\* s.substring(a)
SubstringFrom(s, a) == Substring(s, a, Len(s))

----------------------------------------------------------------------------
(* Patch applier *)

TextChange(start, length, newText) ==
    [span |-> [start |-> start, length |-> length], newText |-> newText]

\* a faulty variant: the suffix starts at span.start, so the span is not removed
doTextChangeOnStringInsert(currentFileText, change) ==
    Substring(currentFileText, 0, change.span.start)
        \o change.newText
        \o SubstringFrom(currentFileText, change.span.start)

doTextChangeOnString(currentFileText, change) ==
    LET prefix == Substring(currentFileText, 0, change.span.start)
        middle == change.newText
        suffix == SubstringFrom(currentFileText,
                                change.span.start + change.span.length)
    IN prefix \o middle \o suffix

\* the loop of doTextChanges, i counting down from i to 1
RECURSIVE doTextChangesLoop(_, _, _)
doTextChangesLoop(fileText, textChanges, i) ==
    IF i < 1 THEN fileText
    ELSE doTextChangesLoop(doTextChangeOnString(fileText, textChanges[i]),
                           textChanges, i - 1)

\* a faulty variant: the loop runs from the front of the list
RECURSIVE doTextChangesForwardLoop(_, _, _)
doTextChangesForwardLoop(fileText, textChanges, i) ==
    IF i > Len(textChanges) THEN fileText
    ELSE doTextChangesForwardLoop(
             doTextChangeOnString(fileText, textChanges[i]), textChanges, i + 1)

doTextChangesForward(fileText, textChanges) ==
    doTextChangesForwardLoop(fileText, textChanges, 1)

doTextChanges(fileText, textChanges) ==
    doTextChangesLoop(fileText, textChanges, Len(textChanges))

----------------------------------------------------------------------------
(* Paths: path.dirname, path.join, path.resolve, path.relative *)

\* path.normalize on segments: "." is dropped, ".." removes the segment before
RECURSIVE NormalizeLoop(_, _)
NormalizeLoop(done, rest) ==
    IF rest = <<>> THEN done
    ELSE IF Head(rest) = "." THEN NormalizeLoop(done, Tail(rest))
    ELSE IF Head(rest) = ".."
         THEN NormalizeLoop(IF done = <<>> THEN <<>> ELSE Front(done), Tail(rest))
    ELSE NormalizeLoop(Append(done, Head(rest)), Tail(rest))

Normalize(p) == NormalizeLoop(<<>>, p)

Dirname(p) == IF p = <<>> THEN <<>> ELSE Front(p)

\* path.join(dir, rel)
PathJoin(dir, rel) == Normalize(dir \o rel)

\* path.resolve(base, rel) with an absolute base and a relative rel
PathResolve(base, rel) == Normalize(base \o rel)

\* length of the longest common prefix of two absolute paths
RECURSIVE CommonPrefixLen(_, _)
CommonPrefixLen(a, b) ==
    IF a = <<>> \/ b = <<>> \/ Head(a) # Head(b) THEN 0
    ELSE 1 + CommonPrefixLen(Tail(a), Tail(b))

\* path.relative(from, to) of two absolute paths
PathRelative(from, to) ==
    LET f == Normalize(from)
        t == Normalize(to)
        n == CommonPrefixLen(f, t)
    IN [i \in 1..(Len(f) - n) |-> ".."] \o SubSeq(t, n + 1, Len(t))

\* all directories on the way to p, p included (mkdir with recursive: true)
Ancestors(p) == {SubSeq(p, 1, k) : k \in 1..Len(p)}

----------------------------------------------------------------------------
(* The environment of a run: configuration, disk, compilation view, provider *)

TsConfig == <<"proj", "tsconfig.json">>      \* opt.tsconfig, absolute
Cwd == <<"proj">>                              \* opt.cwd

\* program.getSourceFiles(): the compilation view's file list, in its order
SourceFiles == <<
    [fileName |-> <<"proj", "d.d.ts">>, isDeclarationFile |-> TRUE,
     text |-> <<"d", "e">>],
    [fileName |-> <<"proj", "a.ts">>, isDeclarationFile |-> FALSE,
     text |-> <<"a", "b", "c", "d">>],
    [fileName |-> <<"proj", "node_modules", "m.ts">>, isDeclarationFile |-> FALSE,
     text |-> <<"m", "n", "o">>],
    [fileName |-> <<"proj", "src", "b.ts">>, isDeclarationFile |-> FALSE,
     text |-> <<"e", "f", "g">>] >>

SourceFileNames == {SourceFiles[i].fileName : i \in 1..Len(SourceFiles)}

\* program.getSourceFile(fileName): <<the file>> or <<>> for undefined
getSourceFile(fileName) ==
    IF \E i \in 1..Len(SourceFiles) : SourceFiles[i].fileName = fileName
    THEN <<SourceFiles[CHOOSE i \in 1..Len(SourceFiles) :
                           SourceFiles[i].fileName = fileName]>>
    ELSE <<>>

\* the disk when the run starts: the configuration and the project's files,
\* with the texts the compilation view was built from
InitialFiles ==
    [p \in SourceFileNames \cup {TsConfig} |->
        IF p = TsConfig THEN <<"{", "}">> ELSE getSourceFile(p)[1].text]

InitialDirs == UNION {Ancestors(Dirname(p)) : p \in DOMAIN InitialFiles}

\* the relative paths a user may pass as --file
RelPaths == { <<"a.ts">>, <<"src", "b.ts">>, <<"missing.ts">>,
              <<"node_modules", "m.ts">>, <<"d.d.ts">> }

OutputFolders == { <<"proj">>, <<"proj", "out">> }

\* the edit lists the fix provider may put in a candidate change: spans in
\* ascending order, non-overlapping, inside every eligible file's text
FixChoices ==
    { << TextChange(0, 1, <<"X", "Y">>), TextChange(2, 0, <<"Z">>) >>,
      << TextChange(1, 1, <<>>) >> }

\* codefix.changes: a list of candidate changes
ProviderResponses ==
    SeqsUpTo({[textChanges |-> l] : l \in FixChoices}, MaxCandidates)

\* the paths the analysis surface may read during a run: the project's own
\* source files and a path that is not on disk
ReadPaths ==
    {p \in SourceFileNames :
        \E i \in 1..Len(SourceFiles) :
            SourceFiles[i].fileName = p /\ ~SourceFiles[i].isDeclarationFile
                /\ "node_modules" \notin Range(p)}
    \cup {<<"proj", "gone.ts">>}

\* a call of host.log: a fixed text and the path appended to it (<<>>: none)
Msg(text, path) == [text |-> text, path |-> path]

\* fs.existsSync / host.exists
Exists(files, dirs, p) == p \in DOMAIN files \/ p \in dirs

----------------------------------------------------------------------------
(* The overlay: Map<string, ChangedFile> *)

MapHas(m, k) == \E i \in 1..Len(m) : m[i].key = k

\* Map.prototype.get: <<value>> or <<>> for undefined
MapGet(m, k) ==
    IF MapHas(m, k) THEN <<m[CHOOSE i \in 1..Len(m) : m[i].key = k].value>>
    ELSE <<>>

\* Map.prototype.set
MapSet(m, k, v) ==
    IF MapHas(m, k)
    THEN [i \in 1..Len(m) |-> IF m[i].key = k THEN [key |-> k, value |-> v] ELSE m[i]]
    ELSE Append(m, [key |-> k, value |-> v])

\* ts.sys.readFile: <<content>> or <<>> for undefined
SysReadFile(files, path) == IF path \in DOMAIN files THEN <<files[path]>> ELSE <<>>

\* a faulty variant: the overlay's originalText is returned
readFileOriginal(changedFiles, files, path) ==
    IF MapGet(changedFiles, path) # <<>>
    THEN <<MapGet(changedFiles, path)[1].originalText>>
    ELSE SysReadFile(files, path)

\* createProject's readFile
readFile(changedFiles, files, path) ==
    IF MapGet(changedFiles, path) # <<>>
    THEN <<MapGet(changedFiles, path)[1].newText>>
    ELSE SysReadFile(files, path)

----------------------------------------------------------------------------
(* checkOptions *)

\* the forEach of checkOptions over opt.file[i..]
RECURSIVE checkOptionsLoop(_, _, _, _, _)
checkOptionsLoop(o, files, dirs, i, acc) ==
    IF i > Len(o.file) THEN acc
    ELSE LET file == PathJoin(Dirname(o.tsconfig), o.file[i])
         IN checkOptionsLoop(o, files, dirs, i + 1,
                IF Exists(files, dirs, file)
                THEN [acc EXCEPT !.validFiles = Append(@, file)]
                ELSE [acc EXCEPT !.invalidFiles = Append(@, file)])

\* a faulty variant: throws as soon as one requested file is invalid
checkOptionsStrict(o, files, dirs) ==
    LET r == checkOptionsLoop(o, files, dirs, 1,
                              [validFiles |-> <<>>, invalidFiles |-> <<>>])
    IN [validFiles |-> r.validFiles, invalidFiles |-> r.invalidFiles,
        throws |-> Len(o.file) > 0 /\ Len(r.invalidFiles) > 0]

\* checkOptions: the two lists, and whether it throws
checkOptions(o, files, dirs) ==
    LET r == IF Len(o.file) > 0
             THEN checkOptionsLoop(o, files, dirs, 1,
                                   [validFiles |-> <<>>, invalidFiles |-> <<>>])
             ELSE [validFiles |-> <<>>, invalidFiles |-> <<>>]
    IN [validFiles |-> r.validFiles, invalidFiles |-> r.invalidFiles,
        throws |-> Len(o.file) > 0 /\ Len(r.validFiles) = 0]

----------------------------------------------------------------------------
(* genCodeFixesFromProject: the filters *)

\* /[\\/]node_modules[\\/]/.test(fileName) on an absolute path: a segment
\* node_modules with a separator before it and after it
IsNodeModules(fileName) ==
    \E i \in 1..(Len(fileName) - 1) : fileName[i] = "node_modules"

\* the third argument: null, or the Set of validFiles
FilesArg(o, valid) ==
    [isNull |-> ~(Len(o.file) > 0), set |-> Range(valid)]

\* a faulty variant: the subset is never consulted
NotInSubsetNever(files, fileName) == FALSE

NotInSubset(files, fileName) == ~files.isNull /\ fileName \notin files.set

\* a file reaches getCombinedCodeFix
PassesFilters(file, files) ==
    /\ ~IsNodeModules(file.fileName)
    /\ ~file.isDeclarationFile
    /\ ~NotInSubset(files, file.fileName)

----------------------------------------------------------------------------
(* writeToFile *)

getDirectory(filePath) == Dirname(filePath)

getRelativePath(filePath, o) ==
    PathRelative(getDirectory(o.tsconfig), PathResolve(filePath, <<>>))

getOutputFilePath(filePath, o) ==
    PathResolve(o.outputFolder, getRelativePath(filePath, o))

\* writeToFile: the host calls it makes and the disk afterwards
writeToFile(fileName, fileContents, o, files, dirs) ==
    LET writeToFileName == getOutputFilePath(fileName, o)
        writeToDirectory == getDirectory(writeToFileName)
        mk == ~Exists(files, dirs, writeToDirectory)
    IN [mkdirs |-> IF mk THEN <<writeToDirectory>> ELSE <<>>,
        dirs |-> IF mk THEN dirs \cup Ancestors(writeToDirectory) ELSE dirs,
        writes |-> <<[fileName |-> writeToFileName, content |-> fileContents]>>,
        files |-> [p \in DOMAIN files \cup {writeToFileName} |->
                      IF p = writeToFileName THEN fileContents ELSE files[p]],
        log |-> <<Msg("Updated ", PathRelative(o.cwd, writeToFileName))>>]

\* no call of writeToFile
NoWrite(files, dirs) ==
    [mkdirs |-> <<>>, dirs |-> dirs, writes |-> <<>>, files |-> files, log |-> <<>>]

----------------------------------------------------------------------------
(* A run of codefixProject *)

Options ==
    [cwd : {Cwd}, tsconfig : {TsConfig}, outputFolder : OutputFolders,
     file : SeqsUpTo(RelPaths, MaxRequested), write : BOOLEAN]

NoResult == [kind |-> "none", value |-> ""]
Return(v) == [kind |-> "return", value |-> v]
Throw(v) == [kind |-> "throw", value |-> v]

RunStart(o, at) ==
    /\ opt = o
    /\ fsFiles = InitialFiles
    /\ fsDirs = InitialDirs
    /\ pc = at
    /\ validFiles = <<>>
    /\ invalidFiles = <<>>
    /\ project = "none"
    /\ allChangedFiles = <<>>
    /\ idx = 1
    /\ requested = <<>>
    /\ yielded = <<>>
    /\ hostWrites = <<>>
    /\ hostMkdirs = <<>>
    /\ hostLog = <<>>
    /\ lastRead = <<>>
    /\ result = NoResult

PatchIdle ==
    /\ pText = <<>>
    /\ pEdits = <<>>
    /\ pResult = <<>>
    /\ pPhase = "idle"

Init ==
    /\ \E o \in Options : RunStart(o, "start")
    /\ PatchIdle

\* codefixProject, lines 134-139: checkOptions and the report of invalid files
Validate ==
    /\ pc = "start"
    /\ LET r == checkOptions(opt, fsFiles, fsDirs)
       IN /\ validFiles' = r.validFiles
          /\ invalidFiles' = r.invalidFiles
          /\ IF r.throws
             THEN /\ pc' = "failed"
                  /\ result' = Throw("All provided files are invalid")
                  /\ hostLog' = hostLog
             ELSE /\ pc' = "load"
                  /\ result' = result
                  /\ hostLog' = hostLog \o
                        (IF Len(r.invalidFiles) > 0
                         THEN <<Msg("The following file paths are invalid:", <<>>)>>
                              \o [i \in 1..Len(r.invalidFiles) |->
                                     Msg("", r.invalidFiles[i])]
                         ELSE <<>>)
    /\ UNCHANGED <<opt, fsFiles, fsDirs, project, allChangedFiles, idx, requested,
                   yielded, hostWrites, hostMkdirs, lastRead, patchVars>>

\* createProject reads the configuration through readFile
ReadConfig ==
    lastRead' = <<[path |-> TsConfig,
                   value |-> readFile(allChangedFiles, fsFiles, TsConfig)]>>

\* createProject throws from onUnRecoverableConfigFileDiagnostic
LoadThrow ==
    /\ pc = "load"
    /\ ReadConfig
    /\ project' = "threw"
    /\ pc' = "failed"
    /\ result' = Throw("unrecoverable configuration diagnostic")
    /\ UNCHANGED <<opt, fsFiles, fsDirs, validFiles, invalidFiles, allChangedFiles,
                   idx, requested, yielded, hostWrites, hostMkdirs, hostLog,
                   patchVars>>

\* a faulty variant: the return after a failed load is missing
LoadUndefinedNoReturn ==
    /\ pc = "load"
    /\ ReadConfig
    /\ project' = "undefined"
    /\ pc' = "gen"
    /\ result' = Return("Error: Could not create project.")
    /\ UNCHANGED <<opt, fsFiles, fsDirs, validFiles, invalidFiles, allChangedFiles,
                   idx, requested, yielded, hostWrites, hostMkdirs, hostLog,
                   patchVars>>

\* createProject returns undefined
LoadUndefined ==
    /\ pc = "load"
    /\ ReadConfig
    /\ project' = "undefined"
    /\ pc' = "done"
    /\ result' = Return("Error: Could not create project.")
    /\ UNCHANGED <<opt, fsFiles, fsDirs, validFiles, invalidFiles, allChangedFiles,
                   idx, requested, yielded, hostWrites, hostMkdirs, hostLog,
                   patchVars>>

\* createProject returns a project
LoadOk ==
    /\ pc = "load"
    /\ ReadConfig
    /\ project' = "ok"
    /\ pc' = "gen"
    /\ hostLog' = Append(hostLog, Msg("Using TypeScript", <<>>))
    /\ UNCHANGED <<opt, fsFiles, fsDirs, validFiles, invalidFiles, allChangedFiles,
                   idx, requested, yielded, hostWrites, hostMkdirs, result,
                   patchVars>>

\* the generator is at a file of getSourceFiles()
AtFile == pc = "gen" /\ idx <= Len(SourceFiles)

GenSkip ==
    /\ idx' = idx + 1
    /\ UNCHANGED <<opt, fsFiles, fsDirs, pc, validFiles, invalidFiles, project,
                   allChangedFiles, requested, yielded, hostWrites, hostMkdirs,
                   hostLog, lastRead, result, patchVars>>

\* line 169
GenSkipNodeModules ==
    /\ AtFile
    /\ IsNodeModules(SourceFiles[idx].fileName)
    /\ GenSkip

\* line 173
GenSkipDeclaration ==
    /\ AtFile
    /\ ~IsNodeModules(SourceFiles[idx].fileName)
    /\ SourceFiles[idx].isDeclarationFile
    /\ GenSkip

\* line 177
GenSkipNotInSubset ==
    /\ AtFile
    /\ ~IsNodeModules(SourceFiles[idx].fileName)
    /\ ~SourceFiles[idx].isDeclarationFile
    /\ NotInSubset(FilesArg(opt, validFiles), SourceFiles[idx].fileName)
    /\ GenSkip

\* a faulty variant: the last candidate is taken
ChosenChangeLast(changes) == changes[Len(changes)]

\* codefix.changes[0]
ChosenChange(changes) == changes[1]

\* lines 181-206: the fix provider is asked; no candidate: continue; else yield
GenRequest ==
    /\ AtFile
    /\ ~IsNodeModules(SourceFiles[idx].fileName)
    /\ ~SourceFiles[idx].isDeclarationFile
    /\ ~NotInSubset(FilesArg(opt, validFiles), SourceFiles[idx].fileName)
    /\ \E changes \in ProviderResponses :
          LET fileName == SourceFiles[idx].fileName
          IN /\ requested' = Append(requested,
                                    [fileName |-> fileName, changes |-> changes])
             /\ IF Len(changes) = 0
                THEN /\ idx' = idx + 1
                     /\ pc' = pc
                     /\ yielded' = yielded
                     /\ hostLog' = Append(hostLog,
                                          Msg("Getting codefixes for ", fileName))
                ELSE /\ idx' = idx
                     /\ pc' = "body"
                     /\ yielded' = Append(yielded,
                            [fileName |-> fileName,
                             textChanges |-> ChosenChange(changes).textChanges])
                     /\ hostLog' = hostLog
                            \o <<Msg("Getting codefixes for ", fileName)>>
                            \o (IF Len(changes) > 1
                                THEN <<Msg("Multiple fixes found for ", fileName)>>
                                ELSE <<>>)
    /\ UNCHANGED <<opt, fsFiles, fsDirs, validFiles, invalidFiles, project,
                   allChangedFiles, hostWrites, hostMkdirs, lastRead, result,
                   patchVars>>

\* the generator is exhausted: codefixProject returns "Done"
GenReturn ==
    /\ pc = "gen"
    /\ idx > Len(SourceFiles)
    /\ pc' = "done"
    /\ result' = Return("Done")
    /\ UNCHANGED <<opt, fsFiles, fsDirs, validFiles, invalidFiles, project,
                   allChangedFiles, idx, requested, yielded, hostWrites, hostMkdirs,
                   hostLog, lastRead, patchVars>>

\* a faulty variant: the entry keeps the new text as its original text
ChangedFileSwapped(originalText, newText) ==
    [originalText |-> newText, newText |-> newText]

\* the ChangedFile of line 157
ChangedFile(originalText, newText) ==
    [originalText |-> originalText, newText |-> newText]

\* a faulty variant: the file is written whatever opt.write says
OutputAlways(o, fileName, changedFile, files, dirs) ==
    writeToFile(fileName, changedFile, o, files, dirs)

\* lines 159-161
Output(o, fileName, changedFile, files, dirs) ==
    IF o.write THEN writeToFile(fileName, changedFile, o, files, dirs)
    ELSE NoWrite(files, dirs)

\* lines 151-161: the body of the for..of loop, for the value just yielded;
\* the generator then resumes after its yield
Body ==
    /\ pc = "body"
    /\ LET fileName == Last(yielded).fileName
           textChanges == Last(yielded).textChanges
           sourceFile == getSourceFile(fileName)
       IN IF sourceFile = <<>>
          THEN /\ pc' = "failed"
               /\ result' = Throw("File not found in project")
               /\ hostLog' = Append(hostLog, Msg("Applying fixes to file: ", fileName))
               /\ UNCHANGED <<allChangedFiles, fsFiles, fsDirs, hostWrites,
                              hostMkdirs, idx>>
          ELSE LET changedFile == doTextChanges(sourceFile[1].text, textChanges)
                   out == Output(opt, fileName, changedFile, fsFiles, fsDirs)
               IN /\ allChangedFiles' = MapSet(allChangedFiles, fileName,
                         ChangedFile(sourceFile[1].text, changedFile))
                  /\ fsFiles' = out.files
                  /\ fsDirs' = out.dirs
                  /\ hostWrites' = hostWrites \o out.writes
                  /\ hostMkdirs' = hostMkdirs \o out.mkdirs
                  /\ hostLog' = hostLog
                        \o <<Msg("Applying fixes to file: ", fileName)>> \o out.log
                  /\ pc' = "gen"
                  /\ idx' = idx + 1
                  /\ result' = result
    /\ UNCHANGED <<opt, validFiles, invalidFiles, project, requested, yielded,
                   lastRead, patchVars>>

\* the analysis surface reads a file: readFile / getScriptSnapshot
Read ==
    /\ pc \in {"gen", "body"}
    /\ \E p \in ReadPaths :
          lastRead' = <<[path |-> p, value |-> readFile(allChangedFiles, fsFiles, p)]>>
    /\ UNCHANGED <<opt, fsFiles, fsDirs, pc, validFiles, invalidFiles, project,
                   allChangedFiles, idx, requested, yielded, hostWrites, hostMkdirs,
                   hostLog, result, patchVars>>

Next ==
    \/ Validate
    \/ LoadThrow
    \/ LoadUndefined
    \/ LoadOk
    \/ GenSkipNodeModules
    \/ GenSkipDeclaration
    \/ GenSkipNotInSubset
    \/ GenRequest
    \/ GenReturn
    \/ Body
    \/ Read

Spec == Init /\ [][Next]_vars

----------------------------------------------------------------------------
(* A call of doTextChanges on its own *)

Alphabet == <<"a", "b", "c", "d", "e", "f", "g", "h", "i", "j">>

\* the generic input texts: the prefixes of the alphabet
Texts == {SubSeq(Alphabet, 1, n) : n \in 0..Min(MaxTextLen, Len(Alphabet))}

Replacements == { <<>>, <<"X">>, <<"X", "Y">> }

\* the edits whose span lies inside text t
EditsOn(t) ==
    {TextChange(s, l, r) : s \in 0..Len(t), l \in 0..MaxSpanLen, r \in Replacements}

InRange(t, e) == e.span.start + e.span.length <= Len(t)

\* the example of the specification's section 8
ExampleText == SubSeq(Alphabet, 1, 8)
ExampleEdit == TextChange(5, 3, <<"X", "Y", "Z">>)

InitPatch ==
    /\ \E o \in Options : o.file = <<>> /\ ~o.write /\ o.outputFolder = Cwd
                          /\ RunStart(o, "off")
    /\ pResult = <<>>
    /\ pPhase = "input"
    /\ \/ /\ pText \in Texts
          /\ pEdits \in SeqsUpTo({e \in EditsOn(pText) : InRange(pText, e)}, MaxEdits)
       \/ /\ pText = ExampleText
          /\ pEdits = <<ExampleEdit>>

ApplyPatch ==
    /\ pPhase = "input"
    /\ pResult' = doTextChanges(pText, pEdits)
    /\ pPhase' = "done"
    /\ UNCHANGED <<pText, pEdits, runVars>>

NextPatch == ApplyPatch

SpecPatch == InitPatch /\ [][NextPatch]_vars

----------------------------------------------------------------------------
(* Claims about the patch applier, checked under SpecPatch *)

SpanEnd(e) == e.span.start + e.span.length

\* no two edits of the list share a character of the text
PairwiseNonOverlapping(E) ==
    \A i, j \in 1..Len(E) :
        i < j => SpanEnd(E[i]) <= E[j].span.start \/ SpanEnd(E[j]) <= E[i].span.start

\* every replacement is as long as the span it replaces
LengthPreserving(E) ==
    \A i \in 1..Len(E) : Len(E[i].newText) = E[i].span.length

\* the lists that present the edits of E in another order
Reorderings(E) ==
    {[i \in 1..Len(E) |-> E[f[i]]] :
        f \in {g \in [1..Len(E) -> 1..Len(E)] :
                  \A a, b \in 1..Len(E) : g[a] = g[b] => a = b}}

\* the spans lie in t, in ascending order, each ending before the next starts
AscendingInText(t, E) ==
    /\ \A i \in 1..Len(E) : InRange(t, E[i])
    /\ \A i \in 1..(Len(E) - 1) : SpanEnd(E[i]) <= E[i + 1].span.start

\* the splice of t read from left to right: the text before the k-th span,
\* its replacement, and so on from the end of the span
RECURSIVE SpliceFrom(_, _, _, _)
SpliceFrom(t, E, pos, k) ==
    IF k > Len(E) THEN SubSeq(t, pos + 1, Len(t))
    ELSE SubSeq(t, pos + 1, E[k].span.start) \o E[k].newText
         \o SpliceFrom(t, E, SpanEnd(E[k]), k + 1)

ReferenceSplice(t, E) == SpliceFrom(t, E, 0, 1)

RECURSIVE SumSpanLengths(_)
SumSpanLengths(E) ==
    IF E = <<>> THEN 0 ELSE Head(E).span.length + SumSpanLengths(Tail(E))

RECURSIVE SumReplacementLengths(_)
SumReplacementLengths(E) ==
    IF E = <<>> THEN 0 ELSE Len(Head(E).newText) + SumReplacementLengths(Tail(E))

\* no two edits of the list start at the same offset
DistinctStarts(E) ==
    \A i, j \in 1..Len(E) : i < j => E[i].span.start # E[j].span.start

C2_ReferenceSplice ==
    (pPhase = "done" /\ AscendingInText(pText, pEdits))
        => /\ pResult = ReferenceSplice(pText, pEdits)
           /\ Len(pResult) = Len(pText) - SumSpanLengths(pEdits)
                                 + SumReplacementLengths(pEdits)
           /\ (pEdits = <<>> => pResult = pText)

C2_Witness ==
    /\ pPhase = "done"
    /\ Len(pEdits) = 2
    /\ AscendingInText(pText, pEdits)
    /\ pEdits[1].span.start < pEdits[2].span.start
    /\ Len(pEdits[1].newText) # pEdits[1].span.length
    /\ Len(pEdits[2].newText) # pEdits[2].span.length
    /\ pEdits[2].span.length > 0
    /\ Len(pResult) # Len(pText)

ExampleCall == pPhase = "done" /\ pText = ExampleText /\ pEdits = <<ExampleEdit>>

\* C3 as stated: the edit {start:5, length:3, replacement:"XYZ"} on "abcdefgh"
\* yields "abcdeXYZfgh".
C3_ExampleKeepsTail ==
    ExampleCall => pResult = <<"a", "b", "c", "d", "e", "X", "Y", "Z", "f", "g", "h">>

\* C3 amended: the edit {start:5, length:3, replacement:"XYZ"} on "abcdefgh"
\* yields "abcdeXYZ": the three characters of the span are replaced.
C3_ExampleReplacesTail ==
    ExampleCall => pResult = <<"a", "b", "c", "d", "e", "X", "Y", "Z">>

C3_Witness == ExampleCall /\ Len(pResult) = Len(pText)

----------------------------------------------------------------------------
(* Claims about a run of codefixProject, checked under Spec *)

\* the yielded values whose loop body has run
Applied == IF pc = "body" THEN Front(yielded) ELSE yielded

\* the edit list most recently applied to path p
LastAppliedEdits(p) ==
    Applied[CHOOSE i \in 1..Len(Applied) :
                /\ Applied[i].fileName = p
                /\ \A j \in (i + 1)..Len(Applied) : Applied[j].fileName # p].textChanges

WasPatched(p) == \E i \in 1..Len(Applied) : Applied[i].fileName = p

\* the text the compilation view holds for p
ViewText(p) == getSourceFile(p)[1].text

\* C4: a read returns the text recorded for the path when codefixProject has
\* recorded one (the path is a key of the overlay), and otherwise what the
\* real file system holds for the path, if anything.
C4_ReadThrough ==
    [][lastRead' # lastRead =>
         LET p == lastRead'[1].path
         IN /\ WasPatched(p) <=> MapHas(allChangedFiles, p)
            /\ IF WasPatched(p)
               THEN lastRead'[1].value =
                        <<ReferenceSplice(ViewText(p), LastAppliedEdits(p))>>
               ELSE lastRead'[1].value =
                        (IF p \in DOMAIN fsFiles THEN <<fsFiles[p]>> ELSE <<>>)]_vars

C4_Witness ==
    /\ lastRead # <<>>
    /\ MapHas(allChangedFiles, lastRead[1].path)
    /\ lastRead[1].value = <<MapGet(allChangedFiles, lastRead[1].path)[1].newText>>
    /\ lastRead[1].value # <<fsFiles[lastRead[1].path]>>
    /\ lastRead[1].value # <<ViewText(lastRead[1].path)>>

\* what C5 says of the overlay in one state
OverlayConsistent ==
    /\ \A i, j \in 1..Len(allChangedFiles) :
          allChangedFiles[i].key = allChangedFiles[j].key => i = j
    /\ \A i \in 1..Len(allChangedFiles) :
          LET p == allChangedFiles[i].key
              entry == allChangedFiles[i].value
          IN /\ WasPatched(p)
             /\ entry.originalText = ViewText(p)
             /\ entry.newText = doTextChanges(entry.originalText, LastAppliedEdits(p))

\* what C5 says of one step: an entry stays, with its originalText
OriginalTextKept ==
    \A i \in 1..Len(allChangedFiles) :
        /\ MapHas(allChangedFiles', allChangedFiles[i].key)
        /\ MapGet(allChangedFiles', allChangedFiles[i].key)[1].originalText
              = allChangedFiles[i].value.originalText

\* C5: a path is a key of the overlay at most once; its originalText is the
\* text the compilation view held for the file and never changes; its newText
\* is doTextChanges(originalText, edits) for the latest patch of the path.
C5_OverlayStore == []OverlayConsistent /\ [][OriginalTextKept]_vars

C5_Witness ==
    /\ pc = "done"
    /\ Len(allChangedFiles) = 2
    /\ \A i \in 1..2 :
          allChangedFiles[i].value.newText # allChangedFiles[i].value.originalText

\* C6: with write = false there is no host.writeFile and no host.mkdir call,
\* and the disk stays as it was, however many files were fixed.
C6_DryRun ==
    ~opt.write => /\ hostWrites = <<>>
                  /\ hostMkdirs = <<>>
                  /\ fsFiles = InitialFiles
                  /\ fsDirs = InitialDirs

C6_Witness ==
    /\ ~opt.write
    /\ pc = "done"
    /\ Len(allChangedFiles) = 2

\* the requested paths, resolved against the configuration's directory
ResolvedRequest ==
    [i \in 1..Len(opt.file) |-> Normalize(Dirname(TsConfig) \o opt.file[i])]

OnDiskAtStart(p) == p \in DOMAIN InitialFiles \/ p \in InitialDirs
NotOnDiskAtStart(p) == ~OnDiskAtStart(p)

AllRequestedInvalid ==
    Len(opt.file) > 0 /\ \A i \in 1..Len(opt.file) : NotOnDiskAtStart(ResolvedRequest[i])

IsInvalidReport(m) == m.text = ""

\* C7: once validation has run, validFiles are the resolved requested paths
\* that exist and invalidFiles those that do not, both in request order;
\* it throws 'All provided files are invalid' exactly when the request is
\* non-empty and no requested path exists; otherwise the run goes on to load
\* the project, reports exactly the invalid paths and asks for fixes only for
\* files of the valid list when a request was given.
C7_SubsetValidation ==
    pc # "start" =>
        /\ validFiles = SelectSeq(ResolvedRequest, OnDiskAtStart)
        /\ invalidFiles = SelectSeq(ResolvedRequest, NotOnDiskAtStart)
        /\ (result = Throw("All provided files are invalid")) <=> AllRequestedInvalid
        /\ ~AllRequestedInvalid =>
              /\ pc = "load" \/ project # "none"
              /\ [i \in 1..Len(SelectSeq(hostLog, IsInvalidReport)) |->
                     SelectSeq(hostLog, IsInvalidReport)[i].path] = invalidFiles
              /\ Len(opt.file) > 0 =>
                    \A i \in 1..Len(requested) :
                        requested[i].fileName \in Range(validFiles)

C7_Witness ==
    /\ pc = "done"
    /\ result = Return("Done")
    /\ Len(validFiles) = 1
    /\ Len(invalidFiles) = 1
    /\ Len(requested) = 1

\* a path with a node_modules directory above the file
UnderNodeModules(p) == "node_modules" \in Range(Dirname(p))

\* a file of the view that the filters are to keep out
FilteredOut(f) ==
    \/ UnderNodeModules(f.fileName)
    \/ f.isDeclarationFile
    \/ Len(opt.file) > 0 /\ f.fileName \notin Range(SelectSeq(ResolvedRequest, OnDiskAtStart))

\* C8: a file under node_modules, a declaration file, or - when a file subset
\* was given - a file outside the valid subset is never yielded, never passed
\* to the fix provider, never added to the overlay and never written.
C8_Filtering ==
    \A k \in 1..Len(SourceFiles) :
        FilteredOut(SourceFiles[k]) =>
            LET p == SourceFiles[k].fileName
            IN /\ \A i \in 1..Len(yielded) : yielded[i].fileName # p
               /\ \A i \in 1..Len(requested) : requested[i].fileName # p
               /\ ~MapHas(allChangedFiles, p)
               /\ \A i \in 1..Len(hostWrites) :
                     hostWrites[i].fileName # getOutputFilePath(p, opt)

C8_Witness ==
    /\ pc = "done"
    /\ opt.write
    /\ Len(opt.file) = 2
    /\ Len(validFiles) = 2
    /\ \E i \in 1..2 : UnderNodeModules(validFiles[i])
    /\ Len(hostWrites) = 1
    /\ \E k \in 1..Len(SourceFiles) :
          /\ ~UnderNodeModules(SourceFiles[k].fileName)
          /\ ~SourceFiles[k].isDeclarationFile
          /\ SourceFiles[k].fileName \notin Range(validFiles)

FatalFailure ==
    \/ result = Throw("All provided files are invalid")
    \/ result = Throw("unrecoverable configuration diagnostic")
    \/ result = Return("Error: Could not create project.")

\* C9: when validation fails or the project cannot be loaded, no fix was
\* requested, the overlay is empty and the host was asked for no writeFile
\* and no mkdir; when validation fails the project load was not attempted.
C9_FatalBeforeEffects ==
    /\ FatalFailure =>
          /\ requested = <<>>
          /\ yielded = <<>>
          /\ allChangedFiles = <<>>
          /\ hostWrites = <<>>
          /\ hostMkdirs = <<>>
          /\ fsFiles = InitialFiles
    /\ result = Throw("All provided files are invalid") =>
          project = "none" /\ lastRead = <<>>
    /\ project \in {"undefined", "threw"} => FatalFailure

C9_Witness ==
    /\ project = "undefined"
    /\ result = Return("Error: Could not create project.")
    /\ opt.write
    /\ Len(invalidFiles) = 1
    /\ Len(validFiles) = 1

\* the files of the view the generator has dealt with
Examined == IF pc = "body" THEN idx ELSE idx - 1

ReachesProvider(f) == PassesFilters(f, FilesArg(opt, validFiles))

HasCandidate(r) == Len(r.changes) > 0

PositionInView(p) == CHOOSE k \in 1..Len(SourceFiles) : SourceFiles[k].fileName = p

\* what C10 says of one state
EnumerationAsSpecified ==
    LET reach == SelectSeq(SubSeq(SourceFiles, 1, Examined), ReachesProvider)
        fixed == SelectSeq(requested, HasCandidate)
    IN /\ [i \in 1..Len(requested) |-> requested[i].fileName]
              = [i \in 1..Len(reach) |-> reach[i].fileName]
       /\ yielded = [i \in 1..Len(fixed) |->
                        [fileName |-> fixed[i].fileName,
                         textChanges |-> fixed[i].changes[1].textChanges]]
       /\ \A i, j \in 1..Len(yielded) :
             i < j => PositionInView(yielded[i].fileName)
                          < PositionInView(yielded[j].fileName)

\* what C10 says of one step: a fix is requested only when every value
\* yielded before is in the overlay and, with write enabled, on disk
RequestedLazily ==
    requested' # requested =>
        \A i \in 1..Len(yielded) :
            LET p == yielded[i].fileName
            IN /\ MapHas(allChangedFiles, p)
               /\ opt.write =>
                     \E w \in 1..Len(hostWrites) :
                         /\ hostWrites[w].fileName = getOutputFilePath(p, opt)
                         /\ hostWrites[w].content = MapGet(allChangedFiles, p)[1].newText

\* C10: the generator yields each file of the view at most once, in the
\* view's order, exactly the files that pass the filters and have at least one
\* candidate, each with the edit list of the first candidate; the fix of a
\* file is requested only after the patch of the file yielded before has been
\* recorded (and written, when write is enabled).
C10_Enumeration == []EnumerationAsSpecified /\ [][RequestedLazily]_vars

C10_Witness ==
    /\ pc = "done"
    /\ opt.write
    /\ Len(requested) = 2
    /\ Len(yielded) = 1
    /\ \E i \in 1..2 : Len(requested[i].changes) = 0
    /\ \E i \in 1..2 :
          /\ Len(requested[i].changes) = 2
          /\ requested[i].changes[1] # requested[i].changes[2]

====
